---- MODULE Spec2Model ----
(***************************************************************************)
(* Layout directives of src/library/layout.rs (page, pagebreak, h, v,      *)
(* align, stack, grid): each directive reads its Args, and either appends  *)
(* operations to the Template of the evaluation context or returns a       *)
(* Template value.  A Template is a log of operations that is replayed     *)
(* against an initial State.  Closures captured by Modify / Block          *)
(* operations are records naming the directive and its captured variables; *)
(* they are applied at replay time.                                        *)
(***************************************************************************)
EXTENDS Integers, Sequences, FiniteSets, TLC

VARIABLES
    state,      \* the State the document is replayed against
    template,   \* ctx.template: the operation log of the enclosing Template
    ret,        \* TypResult<Value> of the last directive call
    call,       \* the directive call being evaluated: name and Args
    doc         \* what the replay produced (None until replayed)

vars == <<state, template, ret, call, doc>>

-----------------------------------------------------------------------------
(* Bounds of the model *)

\* longest positional child list handed to stack / grid
MaxList == 3
\* lengths (spacing amounts, page sizes, margins) are 1..MaxLin
MaxLin == 2
\* most operations the enclosing Template log holds before it is replayed
MaxOps == 5

-----------------------------------------------------------------------------
(* Option<T> *)

None == [some |-> FALSE]
Some(x) == [some |-> TRUE, v |-> x]
IsSome(o) == o.some
IsNone(o) == ~o.some

\* Option::unwrap_or
UnwrapOr(o, d) == IF o.some THEN o.v ELSE d

-----------------------------------------------------------------------------
(* Geometric primitives *)

Dir == {"LTR", "RTL", "TTB", "BTT"}
Align == {"Start", "Center", "End", "Left", "Right", "Top", "Bottom"}
Lin == 1 .. MaxLin

\* Dir::axis
DirAxis(d) == IF d \in {"LTR", "RTL"} THEN "Horizontal" ELSE "Vertical"

\* Align::axis: Option<SpecAxis>, None for the axis-agnostic values
AlignAxis(a) ==
    CASE a \in {"Left", "Right"} -> Some("Horizontal")
      [] a \in {"Top", "Bottom"} -> Some("Vertical")
      [] OTHER -> None

\* Gen::new(inline, block)
GenNew(i, b) == [inline |-> i, block |-> b]

\* Gen<Option<T>>::unwrap_or(Gen<T>)
GenUnwrapOr(g, other) ==
    [inline |-> UnwrapOr(g.inline, other.inline),
     block  |-> UnwrapOr(g.block, other.block)]

\* Sides::splat
SidesSplat(x) == [left |-> x, top |-> x, right |-> x, bottom |-> x]

Orthogonal(dirs) == DirAxis(dirs.block) # DirAxis(dirs.inline)

-----------------------------------------------------------------------------
(* Paper presets *)

\* Paper::from_name with Paper::class and Paper::size
PaperFromName(name) ==
    CASE name = "a4" -> Some([class |-> "A", size |-> [w |-> 1, h |-> 2]])
      [] name = "a5" -> Some([class |-> "A", size |-> [w |-> 2, h |-> 3]])
      [] OTHER -> None

-----------------------------------------------------------------------------
(* Args: a sequence of items, positional (name = "") or named.  A value    *)
(* carries its dynamic type.                                               *)

\* a Value: its dynamic type, mapped to its payload
Val(t, x) == [k \in {t} |-> x]
TypeOf(value) == CHOOSE t \in DOMAIN value : TRUE
Payload(value) == value[TypeOf(value)]
Pos(t, x) == [name |-> "", value |-> Val(t, x)]
Nam(n, t, x) == [name |-> n, value |-> Val(t, x)]

RemoveAt(s, i) == SubSeq(s, 1, i - 1) \o SubSeq(s, i + 1, Len(s))

Min(S) == CHOOSE x \in S : \A y \in S : x <= y

\* Args::eat::<T>: the first positional item castable to T, removed
Eat(args, types) ==
    LET idx == {i \in DOMAIN args :
                    args[i].name = "" /\ TypeOf(args[i].value) \in types}
    IN  IF idx = {}
        THEN [v |-> None, rest |-> args]
        ELSE [v |-> Some(args[Min(idx)].value), rest |-> RemoveAt(args, Min(idx))]

\* Args::named::<T>: Ok(None) when absent, Err when the value does not cast
NamedValue(args, name, types) ==
    LET idx == {i \in DOMAIN args : args[i].name = name}
    IN  IF idx = {}
        THEN [ok |-> TRUE, v |-> None]
        ELSE IF TypeOf(args[Min(idx)].value) \in types
             THEN [ok |-> TRUE, v |-> Some(args[Min(idx)].value)]
             ELSE [ok |-> FALSE, v |-> None]

\* Args::named for a type whose cast keeps the value as it is
Named(args, name, types) ==
    LET r == NamedValue(args, name, types)
    IN  [ok |-> r.ok, v |-> IF IsSome(r.v) THEN Some(Payload(r.v.v)) ELSE None]

\* Args::expect::<T>: eat, or Err("missing argument")
Expect(args, types) ==
    LET e == Eat(args, types)
    IN  [ok |-> IsSome(e.v), v |-> e.v, rest |-> e.rest]

\* Args::all::<T>: every positional item castable to T, in order
All(args, types) ==
    LET keep(i) == args[i].name = "" /\ TypeOf(args[i].value) \in types
        F[i \in 0 .. Len(args)] ==
            IF i = 0 THEN <<>>
            ELSE IF keep(i) THEN Append(F[i - 1], args[i].value) ELSE F[i - 1]
    IN  F[Len(args)]

-----------------------------------------------------------------------------
(* State and Template *)

DefaultPage ==
    [class |-> "A", size |-> [w |-> 1, h |-> 2], margins |-> SidesSplat(None)]

\* State::default: left-to-right, top-to-bottom, aligned to the start
DefaultState ==
    [page   |-> DefaultPage,
     aligns |-> GenNew("Start", "Start"),
     dirs   |-> GenNew("LTR", "TTB")]

\* Template operations (TemplateNode)
Save == [op |-> "Save"]
Restore == [op |-> "Restore"]
Modify(f) == [op |-> "Modify", f |-> f]
Spacing(axis, amount) == [op |-> "Spacing", axis |-> axis, amount |-> amount]
ParBreak == [op |-> "ParBreak"]
PageBreak(strong) == [op |-> "PageBreak", strong |-> strong]
Block(f) == [op |-> "Block", f |-> f]

\* TypResult<Value>
OkNone == [kind |-> "none"]
OkTemplate(t) == [kind |-> "template", template |-> t]
Err(msg) == [kind |-> "error", msg |-> msg]

\* Template::to_stack(state): the node a child template is arranged into,
\* against the State it is given
ToStack(t, st) == [template |-> t, aligns |-> st.aligns, dirs |-> st.dirs]

-----------------------------------------------------------------------------
(* stack: the closure of layout.rs:208-248 *)

\* castable! Child: lengths, relatives and linears become Spacing(Linear),
\* templates become Any
Linear(rel, abs) == [rel |-> rel, abs |-> abs]
LinearFrom(value) ==
    CASE TypeOf(value) = "length" -> Linear(0, Payload(value))
      [] TypeOf(value) = "relative" -> Linear(Payload(value), 0)
      [] OTHER -> Payload(value)
ChildTypes == {"length", "relative", "linear", "template"}
CastChild(value) ==
    IF TypeOf(value) = "template"
    THEN [kind |-> "Any", template |-> Payload(value)]
    ELSE [kind |-> "Spacing", v |-> LinearFrom(value)]

\* faulty variant of StackDirs: the fix-up re-installs the inherited inline direction
StackDirsFixInline(dir, st) ==
    LET dirs == GenUnwrapOr(GenNew(None, dir), st.dirs)
    IN  IF DirAxis(dirs.block) = DirAxis(dirs.inline)
        THEN [dirs EXCEPT !.inline = st.dirs.inline]
        ELSE dirs

\* lines 209-215
StackDirs(dir, st) ==
    LET dirs == GenUnwrapOr(GenNew(None, dir), st.dirs)
    IN  IF DirAxis(dirs.block) = DirAxis(dirs.inline)
        THEN [dirs EXCEPT !.inline = st.dirs.block]
        ELSE dirs

\* faulty variant of StackAligns: the alignments are never swapped
StackAlignsNoSwap(dirs, st) == st.aligns

\* lines 220-223
StackAligns(dirs, st) ==
    IF DirAxis(dirs.block) = DirAxis(st.dirs.inline)
    THEN GenNew(st.aligns.block, st.aligns.inline)
    ELSE st.aligns

StackChildSpacing(v) == [kind |-> "Spacing", v |-> v]
StackChildAny(node, aligns) == [kind |-> "Any", node |-> node, aligns |-> aligns]

\* faulty variant of StackPush: an explicit spacing item leaves delayed pending
StackPushKeepDelayed(acc, child, spacing, aligns, st) ==
    IF child.kind = "Spacing"
    THEN [children |-> Append(acc.children, StackChildSpacing(child.v)),
          delayed  |-> acc.delayed]
    ELSE LET pre == IF IsSome(acc.delayed)
                    THEN Append(acc.children, StackChildSpacing(acc.delayed.v))
                    ELSE acc.children
         IN  [children |-> Append(pre, StackChildAny(ToStack(child.template, st), aligns)),
              delayed  |-> spacing]

\* one iteration of the loop of lines 229-245
StackPush(acc, child, spacing, aligns, st) ==
    IF child.kind = "Spacing"
    THEN [children |-> Append(acc.children, StackChildSpacing(child.v)),
          delayed  |-> None]
    ELSE LET pre == IF IsSome(acc.delayed)
                    THEN Append(acc.children, StackChildSpacing(acc.delayed.v))
                    ELSE acc.children
         IN  [children |-> Append(pre, StackChildAny(ToStack(child.template, st), aligns)),
              delayed  |-> spacing]

\* lines 225-245: children = vec![], delayed = None, then the loop
StackChildren(list, spacing, aligns, st) ==
    LET F[i \in 0 .. Len(list)] ==
            IF i = 0 THEN [children |-> <<>>, delayed |-> None]
            ELSE StackPush(F[i - 1], list[i], spacing, aligns, st)
    IN  F[Len(list)].children

\* the closure handed to Template::from_block
StackNode(f, st) ==
    LET dirs == StackDirs(f.dir, st)
        aligns == StackAligns(dirs, st)
    IN  [node     |-> "StackNode",
         dirs     |-> dirs,
         children |-> StackChildren(f.list, f.spacing, aligns, st)]

-----------------------------------------------------------------------------
(* grid: the closure of layout.rs:292-319 *)

\* faulty variant of GridDirs: the inline slot is rewritten even when column-dir is given
GridDirsFixInline(column_dir, row_dir, st) ==
    LET dirs == GenUnwrapOr(GenNew(column_dir, row_dir), st.dirs)
    IN  IF DirAxis(dirs.block) = DirAxis(dirs.inline)
        THEN [dirs EXCEPT !.inline =
                 IF DirAxis(dirs.inline) = DirAxis(st.dirs.inline)
                 THEN st.dirs.block ELSE st.dirs.inline]
        ELSE dirs

\* lines 295-308
GridDirs(column_dir, row_dir, st) ==
    LET dirs == GenUnwrapOr(GenNew(column_dir, row_dir), st.dirs)
    IN  IF DirAxis(dirs.block) = DirAxis(dirs.inline)
        THEN IF IsSome(column_dir)
             THEN [dirs EXCEPT !.block =
                      IF DirAxis(dirs.block) = DirAxis(st.dirs.inline)
                      THEN st.dirs.block ELSE st.dirs.inline]
             ELSE [dirs EXCEPT !.inline =
                      IF DirAxis(dirs.inline) = DirAxis(st.dirs.inline)
                      THEN st.dirs.block ELSE st.dirs.inline]
        ELSE dirs

\* lines 310-318 (tracks and gutter are copied from the arguments unchanged)
GridNode(f, st) ==
    [node     |-> "GridNode",
     dirs     |-> GridDirs(f.column_dir, f.row_dir, st),
     children |-> [i \in DOMAIN f.children |-> ToStack(Payload(f.children[i]), st)]]

-----------------------------------------------------------------------------
(* align: the slot filling of layout.rs:98-111 and the Modify of 114-122 *)

Slots(h, v) == [horizontal |-> h, vertical |-> v]

\* faulty variant of AlignStep: the value's axis is not looked at
AlignStepAnyAxis(slots, value) ==
    IF IsNone(slots.horizontal)
    THEN [slots EXCEPT !.horizontal = Some(value)]
    ELSE IF IsNone(slots.vertical)
         THEN [slots EXCEPT !.vertical = Some(value)]
         ELSE slots

\* faulty variant of AlignStep: a horizontal value replaces a filled horizontal slot
AlignStepOverwrite(slots, value) ==
    LET axis == AlignAxis(value)
    IN  IF axis = Some("Horizontal") \/ (axis = None /\ IsNone(slots.horizontal))
        THEN [slots EXCEPT !.horizontal = Some(value)]
        ELSE IF (axis = Some("Vertical") \/ axis = None) /\ IsNone(slots.vertical)
             THEN [slots EXCEPT !.vertical = Some(value)]
             ELSE slots

\* one iteration of the loop of lines 101-111
AlignStep(slots, value) ==
    LET axis == AlignAxis(value)
    IN  IF (axis = Some("Horizontal") \/ axis = None) /\ IsNone(slots.horizontal)
        THEN [slots EXCEPT !.horizontal = Some(value)]
        ELSE IF (axis = Some("Vertical") \/ axis = None) /\ IsNone(slots.vertical)
             THEN [slots EXCEPT !.vertical = Some(value)]
             ELSE slots

\* lines 115-121
AlignModify(f, st) ==
    LET s1 == IF IsSome(f.horizontal)
              THEN [st EXCEPT !.aligns.inline = f.horizontal.v] ELSE st
    IN  IF IsSome(f.vertical)
        THEN [s1 EXCEPT !.aligns.block = f.vertical.v] ELSE s1

-----------------------------------------------------------------------------
(* page: the Modify of layout.rs:24-65 *)

Swap(size) == [w |-> size.h, h |-> size.w]

\* faulty variant of PageModify: margins is applied after the per-side values
PageModifyMarginsLast(f, st) ==
    LET p0 == st.page
        p5 == IF IsSome(f.left)
              THEN [p0 EXCEPT !.margins.left = Some(f.left.v)] ELSE p0
        p6 == IF IsSome(f.top)
              THEN [p5 EXCEPT !.margins.top = Some(f.top.v)] ELSE p5
        p7 == IF IsSome(f.right)
              THEN [p6 EXCEPT !.margins.right = Some(f.right.v)] ELSE p6
        p8 == IF IsSome(f.bottom)
              THEN [p7 EXCEPT !.margins.bottom = Some(f.bottom.v)] ELSE p7
        p9 == IF IsSome(f.margins)
              THEN [p8 EXCEPT !.margins = SidesSplat(Some(f.margins.v))] ELSE p8
    IN  [st EXCEPT !.page = p9]

\* faulty variant of PageModify: the flip is applied before the size is set
PageModifyFlipFirst(f, st) ==
    LET p0 == st.page
        p1 == IF UnwrapOr(f.flip, FALSE)
              THEN [p0 EXCEPT !.size = Swap(p0.size)] ELSE p0
        p2 == IF IsSome(f.paper)
              THEN [p1 EXCEPT !.class = f.paper.v.class, !.size = f.paper.v.size]
              ELSE p1
        p3 == IF IsSome(f.width)
              THEN [p2 EXCEPT !.class = "Custom", !.size.w = f.width.v] ELSE p2
        p4 == IF IsSome(f.height)
              THEN [p3 EXCEPT !.class = "Custom", !.size.h = f.height.v] ELSE p3
        p5 == IF IsSome(f.margins)
              THEN [p4 EXCEPT !.margins = SidesSplat(Some(f.margins.v))] ELSE p4
        p6 == IF IsSome(f.left)
              THEN [p5 EXCEPT !.margins.left = Some(f.left.v)] ELSE p5
        p7 == IF IsSome(f.top)
              THEN [p6 EXCEPT !.margins.top = Some(f.top.v)] ELSE p6
        p8 == IF IsSome(f.right)
              THEN [p7 EXCEPT !.margins.right = Some(f.right.v)] ELSE p7
        p9 == IF IsSome(f.bottom)
              THEN [p8 EXCEPT !.margins.bottom = Some(f.bottom.v)] ELSE p8
    IN  [st EXCEPT !.page = p9]

PageModify(f, st) ==
    LET p0 == st.page
        p1 == IF IsSome(f.paper)
              THEN [p0 EXCEPT !.class = f.paper.v.class, !.size = f.paper.v.size]
              ELSE p0
        p2 == IF IsSome(f.width)
              THEN [p1 EXCEPT !.class = "Custom", !.size.w = f.width.v] ELSE p1
        p3 == IF IsSome(f.height)
              THEN [p2 EXCEPT !.class = "Custom", !.size.h = f.height.v] ELSE p2
        p4 == IF IsSome(f.margins)
              THEN [p3 EXCEPT !.margins = SidesSplat(Some(f.margins.v))] ELSE p3
        p5 == IF IsSome(f.left)
              THEN [p4 EXCEPT !.margins.left = Some(f.left.v)] ELSE p4
        p6 == IF IsSome(f.top)
              THEN [p5 EXCEPT !.margins.top = Some(f.top.v)] ELSE p5
        p7 == IF IsSome(f.right)
              THEN [p6 EXCEPT !.margins.right = Some(f.right.v)] ELSE p6
        p8 == IF IsSome(f.bottom)
              THEN [p7 EXCEPT !.margins.bottom = Some(f.bottom.v)] ELSE p7
        p9 == IF UnwrapOr(f.flip, FALSE)
              THEN [p8 EXCEPT !.size = Swap(p8.size)] ELSE p8
    IN  [st EXCEPT !.page = p9]

-----------------------------------------------------------------------------
(* Replay of a Template against a State *)

ApplyModify(f, st) ==
    IF f.fn = "page" THEN PageModify(f, st) ELSE AlignModify(f, st)

ApplyBlock(f, st) ==
    IF f.fn = "stack" THEN StackNode(f, st) ELSE GridNode(f, st)

\* one operation: seen records the State the operation observes
ReplayStep(acc, op) ==
    LET a == [acc EXCEPT !.seen = Append(acc.seen, acc.state)]
    IN  CASE op.op = "Modify" ->
                [a EXCEPT !.state = ApplyModify(op.f, acc.state)]
          [] op.op = "Save" ->
                [a EXCEPT !.snapshots = Append(acc.snapshots, acc.state)]
          [] op.op = "Restore" ->
                IF acc.snapshots = <<>>
                THEN [a EXCEPT !.panic = TRUE]
                ELSE [a EXCEPT !.state = acc.snapshots[Len(acc.snapshots)],
                               !.snapshots = SubSeq(acc.snapshots, 1,
                                                    Len(acc.snapshots) - 1)]
          [] op.op = "Block" ->
                [a EXCEPT !.out = Append(acc.out, ApplyBlock(op.f, acc.state))]
          [] OTHER ->
                [a EXCEPT !.out = Append(acc.out, op)]

Replay(t, st) ==
    LET F[i \in 0 .. Len(t)] ==
            IF i = 0
            THEN [state |-> st, snapshots |-> <<>>, seen |-> <<>>,
                  out |-> <<>>, panic |-> FALSE]
            ELSE ReplayStep(F[i - 1], t[i])
    IN  F[Len(t)]

\* TypResult<Value>; Pending while the call has not been evaluated
Pending == [kind |-> "pending"]

\* the value the last call returned, as content of the document
Returned == IF ret.kind = "template" THEN ret.template ELSE <<>>

\* The document is replayed: the enclosing Template, then the content the
\* last call returned.  An error aborts the evaluation: nothing is replayed.
ReplayDoc ==
    /\ doc = None
    /\ ret.kind \in {"none", "template"}
    /\ doc' = Some(Replay(template \o Returned, state))
    /\ UNCHANGED <<state, template, ret, call>>

Invocation(fn, args) == [fn |-> fn, args |-> args]

-----------------------------------------------------------------------------
(* stack and grid: the directives *)

SeqsUpTo(S, n) == UNION {[1 .. k -> S] : k \in 0 .. n}

LinearTypes == {"length", "relative", "linear"}

\* layout.rs:190-249
Stack ==
    /\ call.fn = "stack" /\ ret = Pending
    /\ LET args == call.args
           dir == Named(args, "dir", {"dir"})
           spacing == NamedValue(args, "spacing", LinearTypes)
           all == All(args, ChildTypes)
           list == [i \in DOMAIN all |-> CastChild(all[i])]
           f == [fn |-> "stack", dir |-> dir.v,
                 spacing |-> IF IsSome(spacing.v)
                             THEN Some(LinearFrom(spacing.v.v)) ELSE None,
                 list |-> list]
       IN  ret' = IF ~dir.ok \/ ~spacing.ok
                  THEN Err("expected argument type")
                  ELSE OkTemplate(<<Block(f)>>)
    /\ UNCHANGED <<state, template, call, doc>>

\* layout.rs:252-320 (directions and children)
Grid ==
    /\ call.fn = "grid" /\ ret = Pending
    /\ LET args == call.args
           column_dir == Named(args, "column-dir", {"dir"})
           row_dir == Named(args, "row-dir", {"dir"})
           children == All(args, {"template"})
           f == [fn |-> "grid", column_dir |-> column_dir.v,
                 row_dir |-> row_dir.v, children |-> children]
       IN  ret' = IF ~column_dir.ok \/ ~row_dir.ok
                  THEN Err("expected argument type")
                  ELSE OkTemplate(<<Block(f)>>)
    /\ UNCHANGED <<state, template, call, doc>>

(* Inputs *)

Templates == {"A", "B"}
DirArgs(name) ==
    {<<>>, <<Nam(name, "str", "x")>>} \cup {<<Nam(name, "dir", d)>> : d \in Dir}
StackItems ==
    {Pos("length", 1), Pos("relative", 1)} \cup {Pos("template", t) : t \in Templates}
StackArgs ==
    {l \o d \o s : l \in SeqsUpTo(StackItems, MaxList),
                   d \in DirArgs("dir"),
                   s \in {<<>>, <<Nam("spacing", "length", 1)>>}}
GridArgs ==
    {c \o l \o r : l \in SeqsUpTo({Pos("template", t) : t \in Templates}, MaxList),
                   c \in DirArgs("column-dir"),
                   r \in DirArgs("row-dir")}
ArrangeCalls ==
    {Invocation("stack", a) : a \in StackArgs} \cup
    {Invocation("grid", a) : a \in GridArgs}

OrthogonalDirs == {g \in [inline : Dir, block : Dir] : Orthogonal(g)}
ArrangeStates ==
    {[DefaultState EXCEPT !.dirs = d, !.aligns = a] :
        d \in OrthogonalDirs, a \in [inline : {"Start", "End"}, block : {"Start", "End"}]}

\* one call of a directive, evaluated against an empty enclosing Template
InitWith(states, calls) ==
    /\ state \in states
    /\ template = <<>>
    /\ ret = Pending
    /\ call \in calls
    /\ doc = None

InitArrange == InitWith(ArrangeStates, ArrangeCalls)
NextArrange == Stack \/ Grid \/ ReplayDoc
SpecArrange == InitArrange /\ [][NextArrange]_vars

-----------------------------------------------------------------------------
(* Properties of stack and grid, checked under SpecArrange *)

\* the call was evaluated to a node, by replaying what it returned
Arranged(fn) == call.fn = fn /\ ret.kind = "template" /\ IsSome(doc)
Built == doc.v.out[1]
ArgDir(name) == Named(call.args, name, {"dir"}).v

\* C1: for an ambient State with orthogonal dirs, the block direction of the
\* StackNode is the supplied dir (the ambient block direction when absent);
\* its inline direction is the ambient block direction when that block
\* direction shares an axis with the ambient inline direction, and the
\* ambient inline direction otherwise; the StackNode's dirs are orthogonal.
C1_StackDirsOrthogonal ==
    Arranged("stack") =>
        LET block == UnwrapOr(ArgDir("dir"), state.dirs.block)
        IN  /\ Built.dirs.block = block
            /\ IF DirAxis(block) = DirAxis(state.dirs.inline)
               THEN /\ Built.dirs.inline = state.dirs.block
                    /\ Built.dirs.inline # state.dirs.inline
               ELSE Built.dirs.inline = state.dirs.inline
            /\ Orthogonal(Built.dirs)

C1_Witness ==
    /\ Arranged("stack")
    /\ IsSome(ArgDir("dir"))
    /\ DirAxis(ArgDir("dir").v) = DirAxis(state.dirs.inline)
    /\ Built.dirs.inline = state.dirs.block

\* The child list the positional list stands for: every item in order, and
\* the default gap between two content items that are directly adjacent.
IsContent(item) == TypeOf(item) = "template"
ItemChild(item, aligns) ==
    IF IsContent(item)
    THEN StackChildAny(ToStack(Payload(item), state), aligns)
    ELSE StackChildSpacing(LinearFrom(item))
WithGaps(items, gap, aligns) ==
    LET F[i \in 0 .. Len(items)] ==
            IF i = 0 THEN <<>>
            ELSE F[i - 1]
                 \o (IF i > 1 /\ IsContent(items[i - 1]) /\ IsContent(items[i])
                        /\ IsSome(gap)
                     THEN <<StackChildSpacing(LinearFrom(gap.v))>> ELSE <<>>)
                 \o <<ItemChild(items[i], aligns)>>
    IN  F[Len(items)]
Positional == All(call.args, ChildTypes)
ArgSpacing == NamedValue(call.args, "spacing", LinearTypes).v
AnyAligns ==
    IF \E i \in DOMAIN Built.children : Built.children[i].kind = "Any"
    THEN Built.children[CHOOSE i \in DOMAIN Built.children :
                            Built.children[i].kind = "Any"].aligns
    ELSE state.aligns

\* C2: the children of the StackNode are the positional items in their
\* order, plus one Spacing(S) between each two content items that are
\* directly adjacent in the list, and nowhere else: none before the first
\* or after the last content child, none next to an explicit spacing item,
\* none when spacing is not given.
C2_StackDefaultGaps ==
    Arranged("stack") =>
        /\ Built.children = WithGaps(Positional, ArgSpacing, AnyAligns)
        /\ IsNone(ArgSpacing) => Len(Built.children) = Len(Positional)

C2_Witness ==
    /\ Arranged("stack")
    /\ IsSome(ArgSpacing)
    /\ \E i \in DOMAIN Positional : ~IsContent(Positional[i])
    /\ \E i \in 1 .. Len(Positional) - 1 :
           IsContent(Positional[i]) /\ IsContent(Positional[i + 1])
    /\ Len(Built.children) = Len(Positional) + 1

\* C3: in grid, a supplied column-dir is always the inline direction of the
\* GridNode; when the combined directions share an axis exactly one slot is
\* rewritten, the block slot if column-dir was supplied and the inline slot
\* otherwise, to the ambient direction whose axis differs from the other
\* slot; the GridNode's dirs are orthogonal.
C3_GridDirsOrthogonal ==
    Arranged("grid") =>
        LET col == ArgDir("column-dir")
            row == ArgDir("row-dir")
            inline == UnwrapOr(col, state.dirs.inline)
            block == UnwrapOr(row, state.dirs.block)
            ambient == {state.dirs.inline, state.dirs.block}
        IN  /\ IsSome(col) => Built.dirs.inline = col.v
            /\ Orthogonal(Built.dirs)
            /\ IF DirAxis(inline) = DirAxis(block)
               THEN IF IsSome(col)
                    THEN /\ Built.dirs.inline = inline
                         /\ Built.dirs.block # block
                         /\ Built.dirs.block \in ambient
                    ELSE /\ Built.dirs.block = block
                         /\ Built.dirs.inline # inline
                         /\ Built.dirs.inline \in ambient
               ELSE Built.dirs = GenNew(inline, block)

C3_Witness ==
    /\ Arranged("grid")
    /\ IsSome(ArgDir("column-dir"))
    /\ DirAxis(ArgDir("column-dir").v) = DirAxis(state.dirs.block)
    /\ IsNone(ArgDir("row-dir"))
    /\ Built.dirs.block # state.dirs.block

\* the alignment a frame (dirs, aligns) attaches to a geometric axis
AlignOn(dirs, aligns, axis) ==
    IF DirAxis(dirs.block) = axis THEN aligns.block ELSE aligns.inline

\* C10: every Any child of a StackNode carries the same alignment pair:
\* state.aligns when the resolved block axis differs from the ambient inline
\* axis, state.aligns with block and inline swapped when it equals it; so
\* the alignment on each geometric axis in the stack's frame is the one the
\* ambient State attaches to that axis.
C10_StackAlignsRemap ==
    Arranged("stack") =>
        \A i \in DOMAIN Built.children :
            Built.children[i].kind = "Any" =>
                LET aligns == Built.children[i].aligns
                IN  /\ aligns =
                         IF DirAxis(Built.dirs.block) = DirAxis(state.dirs.inline)
                         THEN [inline |-> state.aligns.block,
                               block  |-> state.aligns.inline]
                         ELSE state.aligns
                    /\ \A axis \in {"Horizontal", "Vertical"} :
                           AlignOn(Built.dirs, aligns, axis)
                               = AlignOn(state.dirs, state.aligns, axis)

C10_Witness ==
    /\ Arranged("stack")
    /\ DirAxis(Built.dirs.block) = DirAxis(state.dirs.inline)
    /\ state.aligns.block # state.aligns.inline
    /\ \E i \in DOMAIN Built.children : Built.children[i].kind = "Any"

-----------------------------------------------------------------------------
(* page, pagebreak, h, v, align: the directives *)

\* Args::named::<Linear>: lengths and relatives are converted
NamedLinear(args, name) ==
    LET r == NamedValue(args, name, LinearTypes)
    IN  [ok |-> r.ok, v |-> IF IsSome(r.v) THEN Some(LinearFrom(r.v.v)) ELSE None]

\* faulty variant of PageAppend: the Template is written before the arguments are checked
PageAppendBeforeChecks(t, ok, f) == t \o <<Modify(f), PageBreak(FALSE)>>

\* layout.rs:24-67, reached only when every argument was accepted
PageAppend(t, ok, f) ==
    IF ok THEN t \o <<Modify(f), PageBreak(FALSE)>> ELSE t

\* layout.rs:6-70
Page ==
    /\ call.fn = "page" /\ ret = Pending
    /\ LET args == call.args
           name == Eat(args, {"str"})
           paper == IF IsSome(name.v) THEN PaperFromName(Payload(name.v.v)) ELSE None
           badName == IsSome(name.v) /\ IsNone(paper)
           width == Named(args, "width", {"length"})
           height == Named(args, "height", {"length"})
           margins == NamedLinear(args, "margins")
           left == NamedLinear(args, "left")
           top == NamedLinear(args, "top")
           right == NamedLinear(args, "right")
           bottom == NamedLinear(args, "bottom")
           flip == Named(args, "flip", {"bool"})
           ok == /\ ~badName /\ width.ok /\ height.ok /\ margins.ok /\ left.ok
                 /\ top.ok /\ right.ok /\ bottom.ok /\ flip.ok
           f == [fn |-> "page", paper |-> paper, width |-> width.v,
                 height |-> height.v, margins |-> margins.v, left |-> left.v,
                 top |-> top.v, right |-> right.v, bottom |-> bottom.v,
                 flip |-> flip.v]
       IN  /\ template' = PageAppend(template, ok, f)
           /\ ret' = IF badName THEN Err("invalid paper name")
                     ELSE IF ~ok THEN Err("expected argument type")
                     ELSE OkNone
    /\ UNCHANGED <<state, call, doc>>

\* layout.rs:73-76
Pagebreak ==
    /\ call.fn = "pagebreak" /\ ret = Pending
    /\ template' = Append(template, PageBreak(TRUE))
    /\ ret' = OkNone
    /\ UNCHANGED <<state, call, doc>>

\* faulty variant of SpacingAppend: spacing is appended even when the amount is missing
SpacingAppendAlways(t, axis, spacing) ==
    Append(t, Spacing(axis, IF spacing.ok THEN LinearFrom(spacing.v.v)
                            ELSE Linear(0, 0)))

\* layout.rs:80-81 and 87-88
SpacingAppend(t, axis, spacing) ==
    IF spacing.ok
    THEN Append(t, Spacing(axis, LinearFrom(spacing.v.v)))
    ELSE t

\* layout.rs:79-83
H ==
    /\ call.fn = "h" /\ ret = Pending
    /\ LET spacing == Expect(call.args, LinearTypes)
       IN  /\ template' = SpacingAppend(template, "Inline", spacing)
           /\ ret' = IF spacing.ok THEN OkNone ELSE Err("missing argument: spacing")
    /\ UNCHANGED <<state, call, doc>>

\* layout.rs:86-90
V ==
    /\ call.fn = "v" /\ ret = Pending
    /\ LET spacing == Expect(call.args, LinearTypes)
       IN  /\ template' = SpacingAppend(template, "Block", spacing)
           /\ ret' = IF spacing.ok THEN OkNone ELSE Err("missing argument: spacing")
    /\ UNCHANGED <<state, call, doc>>

\* the loop of lines 101-111 over first.into_iter().chain(second)
AlignLoop(slots, first, second) ==
    LET s1 == IF IsSome(first) THEN AlignStep(slots, first.v) ELSE slots
    IN  IF IsSome(second) THEN AlignStep(s1, second.v) ELSE s1

\* the closure realign of lines 113-127
Realign(t, slots) ==
    t \o <<Modify([fn |-> "align", horizontal |-> slots.horizontal,
                   vertical |-> slots.vertical])>>
      \o (IF IsSome(slots.vertical) THEN <<ParBreak>> ELSE <<>>)

\* faulty variant of AlignContent: the closing restore() is missing
AlignContentNoRestore(slots, body) ==
    Realign(<<Save>>, slots) \o body

\* lines 130-135
AlignContent(slots, body) ==
    Realign(<<Save>>, slots) \o body \o <<Restore>>

\* layout.rs:93-140
AlignCall ==
    /\ call.fn = "align" /\ ret = Pending
    /\ LET args == call.args
           first == Eat(args, {"align"})
           second == Eat(first.rest, {"align"})
           body == Eat(second.rest, {"template"})
           horizontal == Named(args, "horizontal", {"align"})
           vertical == Named(args, "vertical", {"align"})
           slots == AlignLoop(Slots(horizontal.v, vertical.v),
                              IF IsSome(first.v) THEN Some(Payload(first.v.v)) ELSE None,
                              IF IsSome(second.v) THEN Some(Payload(second.v.v)) ELSE None)
       IN  IF ~horizontal.ok \/ ~vertical.ok
           THEN /\ ret' = Err("expected argument type")
                /\ UNCHANGED template
           ELSE IF IsSome(body.v)
                THEN /\ ret' = OkTemplate(AlignContent(slots, Payload(body.v.v)))
                     /\ UNCHANGED template
                ELSE /\ ret' = OkNone
                     /\ template' = Realign(template, slots)
    /\ UNCHANGED <<state, call, doc>>

-----------------------------------------------------------------------------
(* align, one call: inputs and properties, checked under SpecAlign *)

Perms(S) == {p \in [1 .. Cardinality(S) -> S] : \A x \in S : \E i \in DOMAIN p : p[i] = x}

NamedAlignArgs(name) ==
    {<<>>, <<Nam(name, "length", 1)>>}
        \cup {<<Nam(name, "align", a)>> : a \in {"Right", "Bottom", "Center"}}
ContentA == <<Spacing("Inline", Linear(0, 1))>>
AlignArgs ==
    {p \o b \o h \o v :
        p \in SeqsUpTo({Pos("align", a) : a \in Align}, 2),
        b \in {<<>>, <<Pos("template", ContentA)>>},
        h \in NamedAlignArgs("horizontal"),
        v \in NamedAlignArgs("vertical")}
AlignCalls == {Invocation("align", a) : a \in AlignArgs}

InitAlign == InitWith({DefaultState}, AlignCalls)
NextAlign == AlignCall \/ ReplayDoc
SpecAlign == InitAlign /\ [][NextAlign]_vars

\* the arguments of the call, as align reads them
ArgAligns == All(call.args, {"align"})
ArgAlign(i) == IF i <= Len(ArgAligns) THEN Some(Payload(ArgAligns[i])) ELSE None
ArgNamed(name) == Named(call.args, name, {"align"}).v
\* the call was evaluated without an error
Aligned == call.fn = "align" /\ ret.kind \in {"none", "template"}
\* the (horizontal, vertical) pair the call resolved to: what its Modify captured
Resolved ==
    LET f == IF ret.kind = "template" THEN ret.template[2].f ELSE template[1].f
    IN  Slots(f.horizontal, f.vertical)
Affine(a, axis) == AlignAxis(a) = Some(axis)

\* C5 as stated: align(a, b) and align(b, a) resolve to the same pair, for
\* every two alignment values a and b.
C5_OrderIndependent ==
    Aligned /\ Len(ArgAligns) = 2 =>
        Resolved = AlignLoop(Slots(ArgNamed("horizontal"), ArgNamed("vertical")),
                             ArgAlign(2), ArgAlign(1))

\* C5, amended: align(a, b) and align(b, a) resolve to the same pair when one
\* of a and b is horizontal-affine and the other vertical-affine.
C5_OrderIndependentAcrossAxes ==
    /\ Aligned
    /\ Len(ArgAligns) = 2
    /\ \/ Affine(ArgAlign(1).v, "Horizontal") /\ Affine(ArgAlign(2).v, "Vertical")
       \/ Affine(ArgAlign(1).v, "Vertical") /\ Affine(ArgAlign(2).v, "Horizontal")
    => Resolved = AlignLoop(Slots(ArgNamed("horizontal"), ArgNamed("vertical")),
                            ArgAlign(2), ArgAlign(1))

C5_Witness ==
    /\ Aligned
    /\ ArgAligns = <<Val("align", "Top"), Val("align", "Left")>>
    /\ Resolved = Slots(Some("Left"), Some("Top"))

\* the slots before the loop, after the first and after the second value
SlotTrace ==
    LET s0 == Slots(ArgNamed("horizontal"), ArgNamed("vertical"))
        s1 == AlignLoop(s0, ArgAlign(1), None)
        s2 == AlignLoop(s0, ArgAlign(1), ArgAlign(2))
    IN  <<s0, s1, s2>>

\* C6: a slot given by a named argument ends with that value; a positional
\* value is assigned to at most one slot, and only to an empty one; a
\* horizontal-affine value never ends in the vertical slot nor a
\* vertical-affine one in the horizontal slot; align(horizontal: Right, Left)
\* gives horizontal = Right and vertical unset.
C6_NamedWinSlotsFilledOnce ==
    Aligned =>
        /\ Resolved = SlotTrace[3]
        /\ IsSome(ArgNamed("horizontal")) => Resolved.horizontal = ArgNamed("horizontal")
        /\ IsSome(ArgNamed("vertical")) => Resolved.vertical = ArgNamed("vertical")
        /\ \A k \in 1 .. 2 :
             LET old == SlotTrace[k]
                 new == SlotTrace[k + 1]
                 value == ArgAlign(k)
             IN  /\ IsSome(old.horizontal) => new.horizontal = old.horizontal
                 /\ IsSome(old.vertical) => new.vertical = old.vertical
                 /\ new.horizontal = old.horizontal \/ new.vertical = old.vertical
                 /\ new.horizontal # old.horizontal =>
                        /\ new.horizontal = value
                        /\ ~Affine(value.v, "Vertical")
                 /\ new.vertical # old.vertical =>
                        /\ new.vertical = value
                        /\ ~Affine(value.v, "Horizontal")
        /\ call.args = <<Pos("align", "Left"), Nam("horizontal", "align", "Right")>>
               => Resolved = Slots(Some("Right"), None)

C6_Witness ==
    /\ Aligned
    /\ call.args = <<Pos("align", "Left"), Nam("horizontal", "align", "Right")>>
    /\ Resolved = Slots(Some("Right"), None)

-----------------------------------------------------------------------------
(* page margins, one call: inputs and properties, checked under SpecPage *)

SideNames == {"left", "top", "right", "bottom"}
MarginItems == {Nam(n, "length", x) : n \in SideNames \cup {"margins"}, x \in Lin}
\* the named arguments of one call, each name written at most once, in any order
MarginArgs ==
    UNION {Perms(S) : S \in {T \in SUBSET MarginItems :
                                \A a, b \in T : a.name = b.name => a = b}}
PageStates ==
    {DefaultState,
     [DefaultState EXCEPT !.page.margins =
         [left |-> Some(Linear(1, 0)), top |-> Some(Linear(2, 0)),
          right |-> None, bottom |-> Some(Linear(1, 1))]]}

InitPage == InitWith(PageStates, {Invocation("page", a) : a \in MarginArgs})
NextPage == Page \/ ReplayDoc
SpecPage == InitPage /\ [][NextPage]_vars

Paged == call.fn = "page" /\ ret.kind = "none" /\ IsSome(doc)
ArgLinear(name) == NamedLinear(call.args, name).v

\* C8: after the Modify of one page call is replayed, each side's margin is
\* the per-side named value if given, else the margins value if given, else
\* what it was in the State before, in whatever order the arguments were
\* written.
C8_MarginPrecedence ==
    Paged =>
        \A side \in SideNames :
            doc.v.state.page.margins[side] =
                IF IsSome(ArgLinear(side)) THEN ArgLinear(side)
                ELSE IF IsSome(ArgLinear("margins")) THEN ArgLinear("margins")
                ELSE state.page.margins[side]

C8_Witness ==
    /\ Paged
    /\ call.args = <<Nam("left", "length", 1), Nam("margins", "length", MaxLin)>>
    /\ doc.v.state.page.margins =
           [SidesSplat(Some(Linear(0, MaxLin))) EXCEPT !.left = Some(Linear(0, 1))]

-----------------------------------------------------------------------------
(* A document: a sequence of calls, then the replay; SpecDoc *)

\* content built by align(End, Bottom) without content of its own
ContentB == Realign(<<>>, Slots(Some("End"), Some("Bottom")))

FlipArgs == <<Nam("flip", "bool", TRUE)>>
SizeFlipArgs == <<Nam("width", "length", 1), Nam("height", "length", MaxLin)>> \o FlipArgs
DocCalls ==
    {Invocation("page", a) :
        a \in {FlipArgs, SizeFlipArgs, <<Pos("str", "a5")>> \o SizeFlipArgs,
               <<Pos("str", "zz")>>, <<Nam("width", "str", "x")>>}}
    \cup {Invocation("pagebreak", <<>>)}
    \cup {Invocation("h", a) : a \in {<<Pos("length", 1)>>, <<>>}}
    \cup {Invocation("v", a) : a \in {<<Pos("relative", 1)>>, <<Pos("str", "x")>>}}
    \cup {Invocation("align", a) :
        a \in {<<Pos("align", "Top")>>,
               <<Pos("align", "Left"), Pos("template", ContentA)>>,
               <<Pos("align", "Center"), Pos("align", "Top"), Pos("template", ContentB)>>,
               <<Pos("align", "Top"), Nam("horizontal", "length", 1)>>}}
DocStates ==
    {DefaultState,
     [DefaultState EXCEPT !.aligns = GenNew("End", "Center"),
                          !.page.size = [w |-> MaxLin + 1, h |-> 1]]}

\* The evaluator reaches the next call of the markup: the content the last
\* call returned is joined to the enclosing Template (Template +=).
Eval ==
    /\ doc = None
    /\ ret.kind \in {"none", "template"}
    /\ Len(template \o Returned) <= MaxOps
    /\ call' \in DocCalls
    /\ template' = template \o Returned
    /\ ret' = Pending
    /\ UNCHANGED <<state, doc>>

\* The content the last call returned is the trailing content of an
\* enclosing align call.
EvalNested ==
    /\ doc = None
    /\ ret.kind = "template"
    /\ Len(template \o Returned) <= MaxOps
    /\ call' = Invocation("align", <<Pos("align", "Bottom"), Pos("template", ret.template)>>)
    /\ ret' = Pending
    /\ UNCHANGED <<state, template, doc>>

InitDoc == InitWith(DocStates, DocCalls)
NextDoc ==
    \/ Eval \/ EvalNested
    \/ Page \/ Pagebreak \/ H \/ V \/ AlignCall
    \/ ReplayDoc
SpecDoc == InitDoc /\ [][NextDoc]_vars

-----------------------------------------------------------------------------
(* Properties of documents, checked under SpecDoc *)

\* the replayed document, and the State in force after its k-th operation
Content == template \o Returned
StateAfter(k) == IF k < Len(Content) THEN doc.v.seen[k + 1] ELSE doc.v.state

\* Saves minus Restores among t[a..b]
Balance(t, a, b) ==
    Cardinality({k \in a .. b : t[k].op = "Save"})
        - Cardinality({k \in a .. b : t[k].op = "Restore"})
\* the Restore that closes the Save at t[i]; 0 when there is none
MatchRestore(t, i) ==
    LET js == {j \in i + 1 .. Len(t) : t[j].op = "Restore" /\ Balance(t, i, j) = 0}
    IN  IF js = {} THEN 0 ELSE Min(js)

\* C4: the template align returns for content starts with Save and ends
\* with the Restore matching it; replayed inside a larger template, what
\* follows it sees the State in force just before its Save (as if the
\* template were not there), and its content is replayed from that State
\* with the alignment overridden.
C4_AlignScoped ==
    /\ call.fn = "align" /\ ret.kind = "template" =>
          /\ ret.template[1] = Save
          /\ ret.template[Len(ret.template)] = Restore
          /\ MatchRestore(ret.template, 1) = Len(ret.template)
    /\ IsSome(doc) =>
          /\ ~doc.v.panic
          /\ \A i \in DOMAIN Content :
                Content[i].op = "Save" =>
                    LET j == MatchRestore(Content, i)
                        f == Content[i + 1].f
                        first == IF IsSome(f.vertical) THEN i + 3 ELSE i + 2
                        before == doc.v.seen[i]
                        inner == Replay(SubSeq(Content, first, j - 1),
                                        [before EXCEPT
                                            !.aligns.inline = UnwrapOr(f.horizontal, @),
                                            !.aligns.block = UnwrapOr(f.vertical, @)])
                        without == Replay(SubSeq(Content, 1, i - 1)
                                            \o SubSeq(Content, j + 1, Len(Content)),
                                          state)
                    IN  /\ j # 0
                        /\ StateAfter(j) = before
                        /\ \A k \in first .. j - 1 :
                               doc.v.seen[k] = inner.seen[k - first + 1]
                        /\ \A k \in j + 1 .. Len(Content) :
                               doc.v.seen[k] = without.seen[k - (j - i + 1)]
                        /\ doc.v.state = without.state

C4_Witness ==
    /\ IsSome(doc)
    /\ \E i \in DOMAIN Content :
          /\ Content[i].op = "Save"
          /\ MatchRestore(Content, i) \in i + 3 .. Len(Content) - 1
          /\ doc.v.seen[i + 2].aligns # doc.v.seen[i].aligns
          /\ doc.v.seen[MatchRestore(Content, i) + 1] = doc.v.seen[i]
          /\ doc.v.seen[i] # DefaultState

\* C7: page, h, v and align fail before they touch the enclosing Template:
\* a call that returns an error leaves the operation log as it was.
C7_FailFast ==
    [][ret'.kind = "error" => template' = template]_vars

C7_Witness ==
    /\ ret.kind = "error"
    /\ call.fn = "page"
    /\ template # <<>>

IsPageOp(k) == Content[k].op = "Modify" /\ Content[k].f.fn = "page"
FlipOnly(k) ==
    /\ IsPageOp(k)
    /\ Content[k].f.flip = Some(TRUE)
    /\ IsNone(Content[k].f.paper)
    /\ IsNone(Content[k].f.width)
    /\ IsNone(Content[k].f.height)
SizeFlip(k) ==
    /\ IsPageOp(k)
    /\ Content[k].f.flip = Some(TRUE)
    /\ IsSome(Content[k].f.width)
    /\ IsSome(Content[k].f.height)

\* C9: replaying page(width = W, height = H, flip = true) leaves the page
\* size (w = H, h = W), whatever the previous size and the preset; two page
\* calls with only flip = true, with no other page call between them,
\* restore the size in force before the first.
C9_FlipLastInvolution ==
    IsSome(doc) =>
        /\ \A k \in DOMAIN Content :
               SizeFlip(k) =>
                   StateAfter(k).page.size = [w |-> Content[k].f.height.v,
                                              h |-> Content[k].f.width.v]
        /\ \A k, m \in DOMAIN Content :
               /\ k < m /\ FlipOnly(k) /\ FlipOnly(m)
               /\ \A n \in k + 1 .. m - 1 : ~IsPageOp(n)
               => StateAfter(m).page.size = doc.v.seen[k].page.size

C9_Witness ==
    /\ IsSome(doc)
    /\ \E k, m \in DOMAIN Content :
          /\ k < m /\ FlipOnly(k) /\ FlipOnly(m)
          /\ \A n \in k + 1 .. m - 1 : ~IsPageOp(n)
          /\ StateAfter(k).page.size # doc.v.seen[k].page.size
          /\ StateAfter(m).page.size = doc.v.seen[k].page.size
    /\ \E k \in DOMAIN Content :
          /\ SizeFlip(k) /\ IsSome(Content[k].f.paper)
          /\ StateAfter(k).page.size = [w |-> MaxLin, h |-> 1]
          /\ doc.v.seen[k].page.size # [w |-> 1, h |-> MaxLin]

====
